---- MODULE Spec2Model ----
(***************************************************************************)
(* A model of libwyag.py: the loose-object store (object_read,             *)
(* write_object, repo_file, repo_dir), the KVLM codec (kvlm_parse,         *)
(* kvlm_serialize) and the tree codec (tree_parse, tree_serialize).        *)
(*                                                                         *)
(* Bytes are integers 0..255 and a bytes object is a sequence of them.     *)
(* Python indices are 0-based; the operators below keep Python's           *)
(* conventions (find returns -1, slices clamp, negative slice bounds count *)
(* from the end) so that the code's index arithmetic is modelled as        *)
(* written.                                                                *)
(***************************************************************************)
EXTENDS Integers, Sequences, FiniteSets, TLC

VARIABLES
    store,   \* the on-disk object store: [dirs, files]
    held,    \* the in-memory object the caller holds, and where it came from
    last,    \* the outcome of the last store operation
    procs,   \* the concurrent writers of write_object: one record per process
    kv,      \* the KVLM round trip: [pc, k, raw, out]
    ps,      \* one run of kvlm_parse, statement by statement
    tr       \* the tree round trip: [pc, orig, orig2, items, raw, raw2, out]

vars == <<store, held, last, procs, kv, ps, tr>>

----------------------------------------------------------------------------
(* Byte values the code names as literals. *)

NUL == 0
NL == 10
SP == 32
SLASH == 47
DIGIT0 == 48
DIGIT1 == 49

(* Bounds of the model. *)

\* longest raw input handed to kvlm_parse in ParseSpec
MaxRaw == 5
\* interpreter recursion limit (sys.getrecursionlimit()), scaled down
RecursionLimit == 8
\* width of an object id in bytes (20 for SHA-1), scaled down
IdBytes == 2
\* most files the store model holds
MaxFiles == 2
\* most entries of a tree in TreeSpec
MaxEntries == 2

----------------------------------------------------------------------------
(* Python bytes / str primitives *)

Min(a, b) == IF a < b THEN a ELSE b
Max(a, b) == IF a > b THEN a ELSE b

\* s[i] for an index 0 <= i < len(s)
At(s, i) == s[i + 1]

\* s.find(c, from): the lowest index >= from holding byte c, or -1
Find(s, c, from) ==
    LET lo == Max(from, 0)
        hits == {i \in lo..(Len(s) - 1) : At(s, i) = c}
    IN  IF hits = {} THEN -1 ELSE CHOOSE i \in hits : \A j \in hits : i <= j

\* s[a:b] with Python's clamping and negative bounds
PySlice(s, a, b) ==
    LET n == Len(s)
        lo == IF a < 0 THEN Max(n + a, 0) ELSE Min(a, n)
        hi == IF b < 0 THEN Max(n + b, 0) ELSE Min(b, n)
    IN  IF hi <= lo THEN <<>> ELSE [i \in 1..(hi - lo) |-> s[lo + i]]

\* s[a:]
PyFrom(s, a) == PySlice(s, a, Len(s))

\* v.replace(b'\n', b'\n ')
RECURSIVE FoldValue(_)
FoldValue(v) ==
    IF v = <<>> THEN <<>>
    ELSE IF Head(v) = NL THEN <<NL, SP>> \o FoldValue(Tail(v))
    ELSE <<Head(v)>> \o FoldValue(Tail(v))

\* v.replace(b'\n ', b'\n'): left to right, non-overlapping
RECURSIVE UnfoldValue(_)
UnfoldValue(v) ==
    IF v = <<>> THEN <<>>
    ELSE IF Len(v) >= 2 /\ v[1] = NL /\ v[2] = SP
         THEN <<NL>> \o UnfoldValue(SubSeq(v, 3, Len(v)))
    ELSE <<Head(v)>> \o UnfoldValue(Tail(v))

\* sequence comparison as Python compares str and bytes: lexicographic
RECURSIVE SeqLess(_, _)
SeqLess(a, b) ==
    IF b = <<>> THEN FALSE
    ELSE IF a = <<>> THEN TRUE
    ELSE IF Head(a) # Head(b) THEN Head(a) < Head(b)
    ELSE SeqLess(Tail(a), Tail(b))

\* s.startswith(p)
StartsWith(s, p) == Len(s) >= Len(p) /\ SubSeq(s, 1, Len(p)) = p

\* str(n).encode(): the ASCII decimal digits of n >= 0
RECURSIVE Decimal(_)
Decimal(n) ==
    IF n < 10 THEN <<DIGIT0 + n>>
    ELSE Decimal(n \div 10) \o <<DIGIT0 + (n % 10)>>

\* the set of sequences over S of length at most n
RECURSIVE SeqsUpTo(_, _)
SeqsUpTo(S, n) ==
    IF n = 0 THEN {<<>>}
    ELSE LET shorter == SeqsUpTo(S, n - 1)
         IN  shorter \cup {Append(s, x) : s \in {t \in shorter : Len(t) = n - 1}, x \in S}

----------------------------------------------------------------------------
(* KVLM: an OrderedDict from header key to one value or a list of values,  *)
(* plus the message stored under the key None.  The model keeps the        *)
(* header entries in insertion order in hdr; each entry records whether    *)
(* its Python value is a list (isList) and the value(s) in vals.  hasMsg   *)
(* says whether dct[None] is set.                                          *)

EmptyDct == [hdr |-> <<>>, hasMsg |-> FALSE, msg |-> <<>>]

KeyIndex(hdr, key) ==
    LET hits == {i \in 1..Len(hdr) : hdr[i].key = key}
    IN  IF hits = {} THEN 0 ELSE CHOOSE i \in hits : TRUE

\* lines 572-580: append to an existing key's values, or insert the key
DctAdd(dct, key, value) ==
    LET i == KeyIndex(dct.hdr, key)
    IN  IF i = 0
        THEN [dct EXCEPT !.hdr = Append(@, [key |-> key, isList |-> FALSE, vals |-> <<value>>])]
        ELSE [dct EXCEPT !.hdr[i] = [key |-> key, isList |-> TRUE, vals |-> Append(@.vals, value)]]

\* the lines one value contributes to the serialization (line 599)
RECURSIVE SerializeVals(_, _)
SerializeVals(key, vals) ==
    IF vals = <<>> THEN <<>>
    ELSE key \o <<SP>> \o FoldValue(Head(vals)) \o <<NL>> \o SerializeVals(key, Tail(vals))

RECURSIVE SerializeHdr(_)
SerializeHdr(hdr) ==
    IF hdr = <<>> THEN <<>>
    ELSE SerializeVals(Head(hdr).key, Head(hdr).vals) \o SerializeHdr(Tail(hdr))

\* kvlm_serialize: the header lines, a blank line, the message and a newline
kvlm_serialize(kvlm) == SerializeHdr(kvlm.hdr) \o <<NL>> \o kvlm.msg \o <<NL>>

----------------------------------------------------------------------------
(* kvlm_parse, statement by statement.  A run is a record                  *)
(*   [pc, raw, start, end, dct, depth, err]                                *)
(* pc = "call": about to run the body of kvlm_parse(raw, start, dct);      *)
(* pc = "scan": inside the while loop, about to run line 564;              *)
(* pc = "returned" / "raised": the outermost call has ended; "hang" is     *)
(* reported only by the whole-function operator kvlm_parse below, when the *)
(* while loop revisits a position and so never ends.                       *)

ParseStart(raw) ==
    [pc |-> "call", raw |-> raw, start |-> 0, end |-> 0,
     dct |-> EmptyDct, depth |-> 1, err |-> "none"]

Raise(st, e) == [st EXCEPT !.pc = "raised", !.err = e]

\* lines 540-562: the two finds, the base case, and the entry to the loop
KCall(st) ==
    LET raw == st.raw
        spc == Find(raw, SP, st.start)
        nl  == Find(raw, NL, st.start)
    IN  IF (spc < 0) \/ (nl < spc)
        THEN IF nl # st.start
             THEN Raise(st, "AssertionError")
             ELSE [st EXCEPT !.pc = "returned",
                             !.dct = [@ EXCEPT !.hasMsg = TRUE,
                                               !.msg = PyFrom(raw, st.start + 1)]]
        ELSE [st EXCEPT !.pc = "scan", !.end = st.start]

\* lines 564-583: one iteration of the while loop; on break, the value is
\* stored and kvlm_parse calls itself at end+1
KScan(st) ==
    LET raw  == st.raw
        spc  == Find(raw, SP, st.start)
        key  == PySlice(raw, st.start, spc)
        end1 == Find(raw, NL, st.end + 1)
    IN  IF end1 + 1 >= Len(raw)
        THEN Raise([st EXCEPT !.end = end1], "IndexError")
        ELSE IF At(raw, end1 + 1) = SP
        THEN [st EXCEPT !.end = end1]
        ELSE LET value == UnfoldValue(PySlice(raw, spc + 1, end1))
                 dct1  == DctAdd(st.dct, key, value)
             IN  IF st.depth >= RecursionLimit
                 THEN Raise([st EXCEPT !.end = end1, !.dct = dct1], "RecursionError")
                 ELSE [st EXCEPT !.pc = "call", !.start = end1 + 1, !.end = end1,
                                 !.dct = dct1, !.depth = @ + 1]

KStep(st) == IF st.pc = "call" THEN KCall(st) ELSE KScan(st)

\* run to the end; seen holds the loop positions of the current while loop
RECURSIVE KRun(_, _)
KRun(st, seen) ==
    IF st.pc \in {"returned", "raised"} THEN st
    ELSE IF st.pc = "scan" /\ st.end \in seen THEN [st EXCEPT !.pc = "hang"]
    ELSE KRun(KStep(st), IF st.pc = "scan" THEN seen \cup {st.end} ELSE {})

\* kvlm_parse(raw) as one call: its outcome (pc) and the dictionary built
kvlm_parse(raw) == KRun(ParseStart(raw), {})

----------------------------------------------------------------------------
(* Object ids.  An id is a str of 2*IdBytes hexadecimal digits, held as    *)
(* the sequence of its digit values 0..15.  hashlib.sha1 is modelled by a  *)
(* small polynomial digest of the same shape: a deterministic function of  *)
(* the bytes hashed, of fixed width.                                       *)

HexLen == 2 * IdBytes

RECURSIVE Pow(_, _)
Pow(b, n) == IF n = 0 THEN 1 ELSE b * Pow(b, n - 1)

\* int(sha, 16)
RECURSIVE HexToInt(_)
HexToInt(hex) ==
    IF hex = <<>> THEN 0
    ELSE 16 * HexToInt(SubSeq(hex, 1, Len(hex) - 1)) + hex[Len(hex)]

\* format(n, "040x"): lowercase hex, zero-padded on the left to the id width
IntToHex(n) == [i \in 1..HexLen |-> (n \div Pow(16, HexLen - i)) % 16]

\* n.to_bytes(20, byteorder="big")
IntToBytes(n) == [i \in 1..IdBytes |-> (n \div Pow(256, IdBytes - i)) % 256]

\* int.from_bytes(b, "big")
RECURSIVE BytesToInt(_)
BytesToInt(b) ==
    IF b = <<>> THEN 0
    ELSE 256 * BytesToInt(SubSeq(b, 1, Len(b) - 1)) + b[Len(b)]

RECURSIVE Digest(_, _)
Digest(bytes, h) ==
    IF bytes = <<>> THEN h
    ELSE Digest(Tail(bytes), (h * 33 + Head(bytes) + 1) % Pow(16, HexLen))

\* hashlib.sha1(result).hexdigest()
sha1_hexdigest(bytes) == IntToHex(Digest(bytes, 7))

----------------------------------------------------------------------------
(* str.encode('utf8') and bytes.decode('utf8') for code points below 2048 *)

RECURSIVE Utf8Encode(_)
Utf8Encode(str) ==
    IF str = <<>> THEN <<>>
    ELSE LET c == Head(str)
         IN  (IF c < 128 THEN <<c>> ELSE <<192 + (c \div 64), 128 + (c % 64)>>)
             \o Utf8Encode(Tail(str))

\* the decoded str, or <<-1>> for bytes that are not valid UTF-8
RECURSIVE Utf8Decode(_)
Utf8Decode(b) ==
    IF b = <<>> THEN <<>>
    ELSE IF b[1] < 128
    THEN LET rest == Utf8Decode(Tail(b))
         IN  IF rest = <<-1>> THEN rest ELSE <<b[1]>> \o rest
    ELSE IF b[1] >= 194 /\ b[1] < 224 /\ Len(b) >= 2 /\ b[2] >= 128 /\ b[2] < 192
    THEN LET rest == Utf8Decode(SubSeq(b, 3, Len(b)))
         IN  IF rest = <<-1>> THEN rest ELSE <<(b[1] - 192) * 64 + (b[2] - 128)>> \o rest
    ELSE <<-1>>

----------------------------------------------------------------------------
(* Tree codec.  A GitTreeLeaf is [mode, path, sha]: mode a bytes object,   *)
(* path a str (its code points), sha a hex id.                             *)

\* tree_leaf_sort_key: the path for a mode starting b'10', else path + '/'
tree_leaf_sort_key(leaf) ==
    IF StartsWith(leaf.mode, <<DIGIT1, DIGIT0>>)
    THEN leaf.path
    ELSE leaf.path \o <<SLASH>>

\* list.sort(key=...): stable, ascending; each item goes after the items
\* already placed whose key is not greater than its own
RECURSIVE InsertLeaf(_, _)
InsertLeaf(sorted, leaf) ==
    IF sorted = <<>> THEN <<leaf>>
    ELSE IF SeqLess(tree_leaf_sort_key(leaf), tree_leaf_sort_key(Head(sorted)))
         THEN <<leaf>> \o sorted
         ELSE <<Head(sorted)>> \o InsertLeaf(Tail(sorted), leaf)

RECURSIVE SortFrom(_, _)
SortFrom(sorted, items) ==
    IF items = <<>> THEN sorted
    ELSE SortFrom(InsertLeaf(sorted, Head(items)), Tail(items))

UnsortedLeaves(items) == items

\* obj.items.sort(key=tree_leaf_sort_key)
SortLeaves(items) == SortFrom(<<>>, items)

\* lines 487-493: the bytes of the entries, in list order
RECURSIVE EncodeLeaves(_)
EncodeLeaves(items) ==
    IF items = <<>> THEN <<>>
    ELSE LET i == Head(items)
         IN  i.mode \o <<SP>> \o Utf8Encode(i.path) \o <<NUL>>
             \o IntToBytes(HexToInt(i.sha)) \o EncodeLeaves(Tail(items))

\* tree_serialize: sorts obj.items in place and returns the bytes
tree_serialize(items) ==
    LET sorted == SortLeaves(items)
    IN  [items |-> sorted, raw |-> EncodeLeaves(sorted)]

\* tree_parse_one(raw, start): [ok, pos, leaf], or an error
tree_parse_one(raw, start) ==
    LET x == Find(raw, SP, start)
    IN  IF ~(x - start = 5 \/ x - start = 6)
        THEN [ok |-> FALSE, err |-> "AssertionError"]
        ELSE LET m    == PySlice(raw, start, x)
                 mode == IF Len(m) = 5 THEN <<SP>> \o m ELSE m
                 y    == Find(raw, NUL, x)
                 path == Utf8Decode(PySlice(raw, x + 1, y))
                 sha  == IntToHex(BytesToInt(PySlice(raw, y + 1, y + 1 + IdBytes)))
             IN  IF path = <<-1>>
                 THEN [ok |-> FALSE, err |-> "UnicodeDecodeError"]
                 ELSE [ok |-> TRUE, pos |-> y + 1 + IdBytes,
                       leaf |-> [mode |-> mode, path |-> path, sha |-> sha]]

\* tree_parse: leaves are read until pos reaches len(raw); a pos that does
\* not advance (no NUL found) repeats the same read without end
RECURSIVE TreeParseFrom(_, _, _)
TreeParseFrom(raw, pos, ret) ==
    IF pos >= Len(raw) THEN [pc |-> "returned", items |-> ret, err |-> "none"]
    ELSE LET one == tree_parse_one(raw, pos)
         IN  IF ~one.ok THEN [pc |-> "raised", items |-> ret, err |-> one.err]
             ELSE IF one.pos <= pos THEN [pc |-> "hang", items |-> ret, err |-> "none"]
             ELSE TreeParseFrom(raw, one.pos, Append(ret, one.leaf))

tree_parse(raw) == TreeParseFrom(raw, 0, <<>>)

----------------------------------------------------------------------------
(* Framing (write_object, line 387) *)

FMT_BLOB   == <<98, 108, 111, 98>>
FMT_COMMIT == <<99, 111, 109, 109, 105, 116>>
FMT_TREE   == <<116, 114, 101, 101>>
FMT_TAG    == <<116, 97, 103>>

\* obj.fmt + b' ' + str(len(data)).encode() + b'\x00' + data
Frame(fmt, data) == fmt \o <<SP>> \o Decimal(Len(data)) \o <<NUL>> \o data

\* the id write_object computes for a serialized payload (lines 387-389)
ObjectId(fmt, data) == sha1_hexdigest(Frame(fmt, data))

----------------------------------------------------------------------------
(* In-memory objects.  write_object takes any object that has fmt and      *)
(* serialize(); the file defines GitBlob, GitCommit and GitTree.  "Tag"    *)
(* stands for an object of a caller's own class with fmt = b'tag' whose    *)
(* serialize() returns its bytes, the only way a tag frame is written.     *)

GitBlob(data) ==
    [cls |-> "GitBlob", fmt |-> FMT_BLOB, data |-> data, kvlm |-> EmptyDct, items |-> <<>>]

GitCommit(kvlm) ==
    [cls |-> "GitCommit", fmt |-> FMT_COMMIT, data |-> <<>>, kvlm |-> kvlm, items |-> <<>>]

GitTree(items) ==
    [cls |-> "GitTree", fmt |-> FMT_TREE, data |-> <<>>, kvlm |-> EmptyDct, items |-> items]

TagObject(data) ==
    [cls |-> "Tag", fmt |-> FMT_TAG, data |-> data, kvlm |-> EmptyDct, items |-> <<>>]

\* obj.serialize(): the payload, and the object as the call leaves it
\* (tree_serialize sorts the tree's items in place)
Serialize(obj) ==
    IF obj.cls = "GitCommit" THEN [data |-> kvlm_serialize(obj.kvlm), obj |-> obj]
    ELSE IF obj.cls = "GitTree"
    THEN LET r == tree_serialize(obj.items)
         IN  [data |-> r.raw, obj |-> [obj EXCEPT !.items = r.items]]
    ELSE [data |-> obj.data, obj |-> obj]

----------------------------------------------------------------------------
(* The object store on disk.  dirs holds the shard directories under       *)
(* .git/objects; files maps a path <<shard, name>> to the file's content.  *)
(* zlib.compress is modelled as a wrapper that zlib.decompress removes.    *)

zlib_compress(bytes) == <<"zlib", bytes>>
zlib_decompress(content) == content[2]

ShardPathWhole(sha) == <<SubSeq(sha, 1, 2), sha>>

\* the path of repo_file(repo, "objects", sha[0:2], sha[2:])
ShardPath(sha) == <<SubSeq(sha, 1, 2), SubSeq(sha, 3, Len(sha))>>

Exists(files, path) == path \in DOMAIN files

\* repo_dir(repo, "objects", shard, mkdir): whether a path is returned
\* (None otherwise), and the directories afterwards.  No file is ever
\* created at a shard directory's path, so line 521 is not reached.
repo_dir(dirs, shard, mkdir) ==
    IF shard \in dirs THEN [path |-> TRUE, dirs |-> dirs]
    ELSE IF mkdir THEN [path |-> TRUE, dirs |-> dirs \cup {shard}]
    ELSE [path |-> FALSE, dirs |-> dirs]

\* repo_file: the path when repo_dir returned one, else None
repo_file(dirs, sha, mkdir) ==
    LET d == repo_dir(dirs, SubSeq(sha, 1, 2), mkdir)
    IN  [isNone |-> ~d.path, path |-> ShardPath(sha), dirs |-> d.dirs]

\* write_object(obj, repo): the id returned, the store and the object after
write_object(obj, persist, st) ==
    LET ser    == Serialize(obj)
        result == Frame(obj.fmt, ser.data)
        sha    == sha1_hexdigest(result)
        rf     == repo_file(st.dirs, sha, TRUE)
        create == persist /\ ~Exists(st.files, rf.path)
    IN  [sha |-> sha, obj |-> ser.obj, created |-> create,
         store |->
            IF ~persist THEN st
            ELSE [st EXCEPT
                    !.dirs = rf.dirs,
                    !.files = IF create
                              THEN (rf.path :> zlib_compress(result)) @@ @
                              ELSE @,
                    !.written = @ \cup {sha},
                    !.framed = IF create
                               THEN @ \cup {[sha |-> sha, fmt |-> obj.fmt, data |-> ser.data]}
                               ELSE @]]

\* int(s.decode("ascii")) for the length field: surrounding spaces are
\* stripped; -1 stands for ValueError
RECURSIVE DigitsValue(_)
DigitsValue(s) ==
    IF s = <<>> THEN 0
    ELSE DigitsValue(SubSeq(s, 1, Len(s) - 1)) * 10 + (s[Len(s)] - DIGIT0)

RECURSIVE Strip(_)
Strip(s) ==
    IF s # <<>> /\ Head(s) = SP THEN Strip(Tail(s))
    ELSE IF s # <<>> /\ s[Len(s)] = SP THEN Strip(SubSeq(s, 1, Len(s) - 1))
    ELSE s

ParseSize(s) ==
    LET t == Strip(s)
    IN  IF t = <<>> \/ \E i \in 1..Len(t) : t[i] < DIGIT0 \/ t[i] > DIGIT0 + 9
        THEN -1
        ELSE DigitsValue(t)

ReadResult(kind, err, cls, payload, obj) ==
    [kind |-> kind, err |-> err, cls |-> cls, payload |-> payload, obj |-> obj]

NoObject == GitBlob(<<>>)

\* lines 371-380: the class chosen for the type tag, called on the payload
Construct(fmt, payload) ==
    IF fmt = FMT_COMMIT
    THEN LET r == kvlm_parse(payload)
         IN  IF r.pc = "returned"
             THEN ReadResult("object", "none", "GitCommit", payload, GitCommit(r.dct))
             ELSE ReadResult(r.pc, r.err, "GitCommit", payload, NoObject)
    ELSE IF fmt = FMT_TREE
    THEN LET r == tree_parse(payload)
         IN  IF r.pc = "returned"
             THEN ReadResult("object", "none", "GitTree", payload, GitTree(r.items))
             ELSE ReadResult(r.pc, r.err, "GitTree", payload, NoObject)
    ELSE IF fmt = FMT_TAG
    THEN ReadResult("raised", "NameError", "none", <<>>, NoObject)
    ELSE IF fmt = FMT_BLOB
    THEN ReadResult("object", "none", "GitBlob", payload, GitBlob(payload))
    ELSE ReadResult("raised", "Exception: Unknown type", "none", <<>>, NoObject)

\* object_read(repo, sha)
object_read(st, sha) ==
    LET rf == repo_file(st.dirs, sha, FALSE)
    IN  IF rf.isNone
        THEN ReadResult("raised", "TypeError", "none", <<>>, NoObject)
        ELSE IF ~Exists(st.files, rf.path)
        THEN ReadResult("None", "none", "none", <<>>, NoObject)
        ELSE LET raw  == zlib_decompress(st.files[rf.path])
                 x    == Find(raw, SP, 0)
                 fmt  == PySlice(raw, 0, x)
                 y    == Find(raw, NUL, x)
                 size == ParseSize(PySlice(raw, x, y))
             IN  IF size = -1
                 THEN ReadResult("raised", "ValueError", "none", <<>>, NoObject)
                 ELSE IF size # Len(raw) - y - 1
                 THEN ReadResult("raised", "Exception: bad length", "none", <<>>, NoObject)
                 ELSE Construct(fmt, PyFrom(raw, y + 1))

----------------------------------------------------------------------------
(* Idle values of the per-specification variables *)

IdleStore == [dirs |-> {}, files |-> <<>>, written |-> {}, framed |-> {}]
IdleHeld  == [origin |-> "none"]
IdleLast  == [op |-> "none"]
IdleProcs == <<>>
IdleKv    == [pc |-> "idle"]
IdlePs    == [pc |-> "idle"]
IdleTr    == [pc |-> "idle"]

----------------------------------------------------------------------------
(* Spec: one caller working on one store.  It builds an object             *)
(* (NewObject), writes the object it holds (WriteObject, with or without   *)
(* a repository), and reads an id (ObjectRead); an object that was read    *)
(* becomes the object held, so that it can be written back.                *)
(* store.written (the ids returned by writes to the repository) and        *)
(* store.framed (the frames put into files) record history only.           *)

\* a commit with a single-valued key, a key with two values, and a message
StoreKvlms ==
    {[hdr |-> <<[key |-> <<107>>, isList |-> FALSE, vals |-> <<<<118>>>>],
                [key |-> <<112>>, isList |-> TRUE, vals |-> <<<<118>>, <<118, NL, 118>>>>]>>,
      hasMsg |-> TRUE, msg |-> <<109>>]}

\* one sorted tree of 6-digit modes; one unsorted tree with a 5-digit mode
StoreTrees ==
    {<<[mode |-> <<49, 48, 48, 54, 52, 52>>, path |-> <<97>>, sha |-> IntToHex(171)]>>,
     <<[mode |-> <<49, 48, 48, 54, 52, 52>>, path |-> <<98>>, sha |-> IntToHex(171)],
       [mode |-> <<52, 48, 48, 48, 48>>, path |-> <<97>>, sha |-> IntToHex(4660)]>>}

AppObjects ==
    {GitBlob(<<97>>), TagObject(<<111, SP, 120, NL, NL, 109>>)}
    \cup {GitCommit(k) : k \in StoreKvlms}
    \cup {GitTree(t) : t \in StoreTrees}

AppIds == {ObjectId(o.fmt, Serialize(o).data) : o \in AppObjects}

\* an id of the same shard that differs in its last digit
SiblingId(sha) == [sha EXCEPT ![Len(sha)] = (@ + 1) % 16]

PathId(path) == path[1] \o path[2]

\* the ids a caller may ask for: of the objects above, of the files in the
\* store, and of the siblings of those
ReadIds(st) ==
    LET stored == {PathId(path) : path \in DOMAIN st.files}
    IN  AppIds \cup stored \cup {SiblingId(sha) : sha \in stored}

Init ==
    /\ store = IdleStore
    /\ held = IdleHeld
    /\ last = IdleLast
    /\ procs = IdleProcs /\ kv = IdleKv /\ ps = IdlePs /\ tr = IdleTr

\* the caller builds one of the input objects
NewObject ==
    /\ \E o \in AppObjects :
        held' = [origin |-> "new", from |-> <<>>, obj |-> o, writes |-> 0, first |-> <<>>]
    /\ last' = [op |-> "new"]
    /\ UNCHANGED <<store, procs, kv, ps, tr>>

\* write_object(held.obj, repo) with a repository (persist) or with repo=None.
\* The store is capped at MaxFiles files, and an object is written to the
\* repository at most twice in a row.
WriteObject ==
    /\ held.origin # "none"
    /\ \E persist \in BOOLEAN :
        LET w == write_object(held.obj, persist, store)
        IN  /\ w.created => Cardinality(DOMAIN store.files) < MaxFiles
            /\ persist => held.writes < 2
            /\ store' = w.store
            /\ held' = [held EXCEPT !.obj = w.obj,
                                    !.writes = IF persist THEN @ + 1 ELSE @,
                                    !.first = IF persist /\ held.writes = 0 THEN w.sha ELSE @]
            /\ last' = [op |-> "write", sha |-> w.sha, persist |-> persist,
                        created |-> w.created, outcome |-> "ok"]
    /\ UNCHANGED <<procs, kv, ps, tr>>

\* object_read(repo, sha); an object returned becomes the object held
ObjectRead ==
    /\ \E sha \in ReadIds(store) :
        LET r == object_read(store, sha)
        IN  /\ last' = [op |-> "read", sha |-> sha, kind |-> r.kind, err |-> r.err,
                        cls |-> r.cls, payload |-> r.payload, obj |-> r.obj]
            /\ held' = IF r.kind = "object"
                       THEN [origin |-> "read", from |-> sha, obj |-> r.obj,
                             writes |-> 0, first |-> <<>>]
                       ELSE held
    /\ UNCHANGED <<store, procs, kv, ps, tr>>

Next == NewObject \/ WriteObject \/ ObjectRead

Spec == Init /\ [][Next]_vars

\* the shape of the store after any sequence of writes, and the outcome of
\* a repeated write
C1_StoreShape ==
    /\ DOMAIN store.files =
            {<<SubSeq(id, 1, 2), SubSeq(id, 3, Len(id))>> : id \in store.written}
    /\ \A path \in DOMAIN store.files : path[1] \in store.dirs
    /\ last.op = "write" => last.outcome = "ok"
    /\ (last.op = "write" /\ last.persist /\ held.writes = 2) =>
            (last.sha = held.first /\ ~last.created)

\* C1: writing the same object to the same store twice never errors and
\* returns the same id both times; after any sequence of writes the store
\* holds exactly one file, at <id[0:2]>/<id[2:]>, for each distinct id
\* written; a file that exists is never rewritten.
C1_IdempotentWrite ==
    /\ []C1_StoreShape
    /\ [][\A path \in DOMAIN store.files :
                /\ path \in DOMAIN store'.files
                /\ store'.files[path] = store.files[path]]_vars

\* the same object has been written to the store twice, beside another file
C1_Witness ==
    /\ last.op = "write" /\ last.persist /\ ~last.created
    /\ held.writes = 2
    /\ Cardinality(DOMAIN store.files) = 2

\* C2: for every id that has no object file in the store, whether its shard
\* directory is absent or present, object_read returns None and raises
\* nothing.
C2_ReadMissingIsNone ==
    (last.op = "read" /\ ~Exists(store.files, ShardPath(last.sha))) =>
        last.kind = "None"

ClassFor(fmt) ==
    IF fmt = FMT_BLOB THEN "GitBlob"
    ELSE IF fmt = FMT_COMMIT THEN "GitCommit"
    ELSE IF fmt = FMT_TREE THEN "GitTree"
    ELSE "GitTag"

\* C3: once the frame of (t, b) is in the store under its id, object_read
\* of that id selects the decoder of t and hands it exactly b, for each of
\* blob, commit, tree and tag; for a blob the object returned holds b.
C3_ReadRecoversFrame ==
    last.op = "read" =>
        \A f \in store.framed :
            f.sha = last.sha =>
                /\ last.cls = ClassFor(f.fmt)
                /\ last.payload = f.data
                /\ f.fmt = FMT_BLOB => (last.kind = "object" /\ last.obj.data = f.data)

\* C9: for an object read from the store under id h (every stored commit
\* and tree payload here is one a serializer produced), writing the object
\* back returns h and adds no file.
C9_ReencodeIsIdentity ==
    (last.op = "write" /\ held.origin = "read") =>
        (last.sha = held.from /\ ~last.created)

----------------------------------------------------------------------------
(* ConcSpec: two processes run write_object on the same object and the     *)
(* same store, one system call at a time.                                  *)
(* pc: "hash" (lines 385-389), "check_dir" (repo_dir, line 517),           *)
(* "makedirs" (line 524), "check_file" (line 395), "open" (line 396),      *)
(* "write" (line 398 and the close), "done" (line 399), "failed".          *)

Writers == {1, 2}

ConcInit ==
    /\ \E o \in AppObjects :
        procs = [p \in Writers |-> [pc |-> "hash", obj |-> o, sha |-> <<>>,
                                    result |-> <<>>, err |-> "none"]]
    /\ store = IdleStore
    /\ held = IdleHeld /\ last = IdleLast
    /\ kv = IdleKv /\ ps = IdlePs /\ tr = IdleTr

\* lines 385-389: serialize, frame and hash
WHash(p) ==
    /\ procs[p].pc = "hash"
    /\ LET ser    == Serialize(procs[p].obj)
           result == Frame(procs[p].obj.fmt, ser.data)
       IN  procs' = [procs EXCEPT ![p].pc = "check_dir", ![p].obj = ser.obj,
                                  ![p].result = result,
                                  ![p].sha = sha1_hexdigest(result)]
    /\ UNCHANGED <<store, held, last, kv, ps, tr>>

\* repo_dir, lines 517-519: os.path.exists on the shard directory
WCheckDir(p) ==
    /\ procs[p].pc = "check_dir"
    /\ procs' = [procs EXCEPT ![p].pc =
                    IF SubSeq(procs[p].sha, 1, 2) \in store.dirs
                    THEN "check_file" ELSE "makedirs"]
    /\ UNCHANGED <<store, held, last, kv, ps, tr>>

\* repo_dir, line 524: os.makedirs raises FileExistsError when the
\* directory has appeared since the check
WMakedirs(p) ==
    /\ procs[p].pc = "makedirs"
    /\ LET shard == SubSeq(procs[p].sha, 1, 2)
       IN  IF shard \in store.dirs
           THEN /\ procs' = [procs EXCEPT ![p].pc = "failed", ![p].err = "FileExistsError"]
                /\ UNCHANGED store
           ELSE /\ procs' = [procs EXCEPT ![p].pc = "check_file"]
                /\ store' = [store EXCEPT !.dirs = @ \cup {shard}]
    /\ UNCHANGED <<held, last, kv, ps, tr>>

\* line 395: os.path.exists on the object file
WCheckFile(p) ==
    /\ procs[p].pc = "check_file"
    /\ procs' = [procs EXCEPT ![p].pc =
                    IF Exists(store.files, ShardPath(procs[p].sha))
                    THEN "done" ELSE "open"]
    /\ UNCHANGED <<store, held, last, kv, ps, tr>>

\* line 396: open(path, 'wb') creates the file, or truncates it
WOpen(p) ==
    /\ procs[p].pc = "open"
    /\ procs' = [procs EXCEPT ![p].pc = "write"]
    /\ store' = [store EXCEPT !.files = (ShardPath(procs[p].sha) :> <<>>) @@ @]
    /\ UNCHANGED <<held, last, kv, ps, tr>>

\* line 398 and the end of the with block: the compressed frame is written
\* from offset 0 and the file is closed
WWrite(p) ==
    /\ procs[p].pc = "write"
    /\ procs' = [procs EXCEPT ![p].pc = "done"]
    /\ store' = [store EXCEPT
                    !.files = (ShardPath(procs[p].sha) :> zlib_compress(procs[p].result)) @@ @,
                    !.written = @ \cup {procs[p].sha}]
    /\ UNCHANGED <<held, last, kv, ps, tr>>

ConcNext ==
    \E p \in Writers :
        WHash(p) \/ WCheckDir(p) \/ WMakedirs(p) \/ WCheckFile(p) \/ WOpen(p) \/ WWrite(p)

ConcSpec == ConcInit /\ [][ConcNext]_vars

\* C4: when two processes write the same object to the same store
\* concurrently, under every interleaving neither fails, both return the
\* same id, and once both have finished the file at the shard path holds
\* the compressed frame of the object.
C4_ConcurrentWriteHarmless ==
    /\ \A p \in Writers : procs[p].pc # "failed"
    /\ (\A p \in Writers : procs[p].pc = "done") =>
            /\ procs[1].sha = procs[2].sha
            /\ Exists(store.files, ShardPath(procs[1].sha))
            /\ store.files[ShardPath(procs[1].sha)] = zlib_compress(procs[1].result)

----------------------------------------------------------------------------
(* ParseSpec: kvlm_parse run on every byte string over a small alphabet *)

\* space, newline, b'k' and b'v'
ParseAlphabet == {SP, NL, 107, 118}

ParseInit ==
    /\ ps \in {ParseStart(raw) : raw \in SeqsUpTo(ParseAlphabet, MaxRaw)}
    /\ store = IdleStore /\ held = IdleHeld /\ last = IdleLast
    /\ procs = IdleProcs /\ kv = IdleKv /\ tr = IdleTr

ParseCall ==
    /\ ps.pc = "call"
    /\ ps' = KCall(ps)
    /\ UNCHANGED <<store, held, last, procs, kv, tr>>

ParseScan ==
    /\ ps.pc = "scan"
    /\ ps' = KScan(ps)
    /\ UNCHANGED <<store, held, last, procs, kv, tr>>

ParseNext == ParseCall \/ ParseScan

\* the interpreter keeps executing a running call: weak fairness of each step
ParseSpec == ParseInit /\ [][ParseNext]_vars /\ WF_vars(ParseCall) /\ WF_vars(ParseScan)

\* C10: kvlm_parse terminates on every finite byte sequence: every run ends
\* by returning a KVLM or by raising an error, and never loops without end.
C10_Terminates == <>(ps.pc \in {"returned", "raised"})

----------------------------------------------------------------------------
(* KvlmSpec: serialize a KVLM, then parse the bytes *)

\* keys b'k' and b'kk'; values b'', b'v' and b'v\nv'; messages b'' and b'v \nv'
HdrKeys == {<<107>>, <<107, 107>>}
HdrValues == {<<>>, <<118>>, <<118, NL, 118>>}
Messages == {<<>>, <<118, SP, NL, 118>>}

\* a header entry: a single value, or a list of two values
HdrEntries(key) ==
    {[key |-> key, isList |-> FALSE, vals |-> <<v>>] : v \in HdrValues}
    \cup {[key |-> key, isList |-> TRUE, vals |-> <<v, w>>] : v \in HdrValues, w \in HdrValues}

\* headers of at most two keys, the keys distinct
Headers ==
    {<<>>}
    \cup {<<e>> : e \in UNION {HdrEntries(k) : k \in HdrKeys}}
    \cup UNION {{<<e, f>> : e \in HdrEntries(p[1]), f \in HdrEntries(p[2])} :
                    p \in {q \in HdrKeys \X HdrKeys : q[1] # q[2]}}

Kvlms == {[hdr |-> h, hasMsg |-> TRUE, msg |-> m] : h \in Headers, m \in Messages}

KvlmInit ==
    /\ kv \in {[pc |-> "built", k |-> x, raw |-> <<>>, out |-> IdlePs] : x \in Kvlms}
    /\ store = IdleStore /\ held = IdleHeld /\ last = IdleLast
    /\ procs = IdleProcs /\ ps = IdlePs /\ tr = IdleTr

KSerialize ==
    /\ kv.pc = "built"
    /\ kv' = [kv EXCEPT !.pc = "serialized", !.raw = kvlm_serialize(kv.k)]
    /\ UNCHANGED <<store, held, last, procs, ps, tr>>

KParse ==
    /\ kv.pc = "serialized"
    /\ kv' = [kv EXCEPT !.pc = "parsed", !.out = kvlm_parse(kv.raw)]
    /\ UNCHANGED <<store, held, last, procs, ps, tr>>

KvlmNext == KSerialize \/ KParse

KvlmSpec == KvlmInit /\ [][KvlmNext]_vars

\* C5: for every KVLM k, kvlm_parse(kvlm_serialize(k)) returns a KVLM
\* structurally equal to k: the same keys in the same order, the same values
\* per key, and the same message bytes.
C5_RoundTrip ==
    kv.pc = "parsed" => (kv.out.pc = "returned" /\ kv.out.dct = kv.k)

----------------------------------------------------------------------------
(* TreeSpec: a set of leaves is put into a tree in two insertion orders;   *)
(* both trees are serialized, and the bytes of the first are parsed back.  *)

\* b'100644' (regular file), b'40000' (directory), b'120000' (symlink),
\* b'160000' (submodule)
LeafModes ==
    {<<49, 48, 48, 54, 52, 52>>, <<52, 48, 48, 48, 48>>,
     <<49, 50, 48, 48, 48, 48>>, <<49, 54, 48, 48, 48, 48>>}

\* 'a', 'a-' and a path outside ASCII
LeafPaths == {<<97>>, <<97, 45>>, <<233>>}

LeafShas == {IntToHex(2587)}

Leaves == {[mode |-> m, path |-> p, sha |-> h] : m \in LeafModes, p \in LeafPaths, h \in LeafShas}

Range(seq) == {seq[i] : i \in 1..Len(seq)}

\* the lists of at most n distinct leaves: every insertion order of every set
LeafLists(n) == {l \in SeqsUpTo(Leaves, n) : Cardinality(Range(l)) = Len(l)}

\* the other insertion orders of the same leaves
Reorderings(l) == {[i \in 1..Len(l) |-> l[f[i]]] : f \in Permutations(1..Len(l))}

TreeInit ==
    /\ \E l \in LeafLists(MaxEntries) : \E m \in Reorderings(l) :
            tr = [pc |-> "built", orig |-> l, orig2 |-> m, items |-> l,
                  raw |-> <<>>, raw2 |-> <<>>, out |-> [pc |-> "idle"]]
    /\ store = IdleStore /\ held = IdleHeld /\ last = IdleLast
    /\ procs = IdleProcs /\ kv = IdleKv /\ ps = IdlePs

\* tree_serialize on the first tree: obj.items is left sorted
TSerialize ==
    /\ tr.pc = "built"
    /\ LET r == tree_serialize(tr.items)
       IN  tr' = [tr EXCEPT !.pc = "serialized", !.items = r.items, !.raw = r.raw]
    /\ UNCHANGED <<store, held, last, procs, kv, ps>>

\* tree_serialize on the tree built in the other insertion order
TSerializeOther ==
    /\ tr.pc = "serialized"
    /\ tr' = [tr EXCEPT !.pc = "both", !.raw2 = tree_serialize(tr.orig2).raw]
    /\ UNCHANGED <<store, held, last, procs, kv, ps>>

\* tree_parse on the bytes of the first tree
TParse ==
    /\ tr.pc = "both"
    /\ tr' = [tr EXCEPT !.pc = "parsed", !.out = tree_parse(tr.raw)]
    /\ UNCHANGED <<store, held, last, procs, kv, ps>>

TreeNext == TSerialize \/ TSerializeOther \/ TParse

TreeSpec == TreeInit /\ [][TreeNext]_vars

\* C6: for every set E of tree entries (mode of 5 or 6 digits, a single
\* path component, a hex id), tree_parse(tree_serialize(E)) succeeds and
\* yields a set of entries equal to E.
C6_RoundTrip ==
    tr.pc = "parsed" =>
        (tr.out.pc = "returned" /\ Range(tr.out.items) = Range(tr.orig))

\* C7 as stated: every two insertion orders of every set of tree entries
\* serialize to identical bytes, and so to the same tree id.
C7_Canonical ==
    tr.pc \in {"both", "parsed"} =>
        /\ tr.raw = tr.raw2
        /\ ObjectId(FMT_TREE, tr.raw) = ObjectId(FMT_TREE, tr.raw2)

DistinctSortKeys(l) ==
    \A i, j \in 1..Len(l) : i # j => tree_leaf_sort_key(l[i]) # tree_leaf_sort_key(l[j])

\* C7 as amended: every two insertion orders of a set of tree entries whose
\* sort keys are pairwise distinct serialize to identical bytes, and so to
\* the same tree id.
C7_CanonicalDistinctKeys ==
    (tr.pc \in {"both", "parsed"} /\ DistinctSortKeys(tr.orig)) =>
        /\ tr.raw = tr.raw2
        /\ ObjectId(FMT_TREE, tr.raw) = ObjectId(FMT_TREE, tr.raw2)

\* two leaves with distinct keys, inserted in two different orders, one of
\* them not the sorted order, have both been serialized
C7_Witness ==
    /\ tr.pc = "both"
    /\ Len(tr.orig) = 2
    /\ DistinctSortKeys(tr.orig)
    /\ tr.orig2 # tr.orig
    /\ tr.items # tr.orig
    /\ tr.raw = tr.raw2

\* the mode names a tree: b'04' of a 6-digit mode, b'4' of a 5-digit mode
IsTreeMode(mode) ==
    IF Len(mode) = 5 THEN StartsWith(mode, <<52>>) ELSE StartsWith(mode, <<DIGIT0, 52>>)

\* the sort key as the claim states it
TwoWayKey(leaf) == IF IsTreeMode(leaf.mode) THEN leaf.path \o <<SLASH>> ELSE leaf.path

DistinctPaths(l) == \A i, j \in 1..Len(l) : i # j => l[i].path # l[j].path

\* C8: on serialization the entries are ordered by a key that is the path,
\* except that exactly the entries of tree (directory) mode are compared as
\* path + "/"; regular files, symlinks and submodules compare by bare path.
\* Stated for trees whose paths are pairwise distinct, where the order is
\* decided by the keys alone.
C8_TwoWayRule ==
    (tr.pc # "built" /\ DistinctPaths(tr.orig)) =>
        \A i, j \in 1..Len(tr.items) :
            i < j => ~SeqLess(TwoWayKey(tr.items[j]), TwoWayKey(tr.items[i]))

====
